---- MODULE Spec2Model ----
(***************************************************************************)
(* ChatGLM / GLM decoder definition (tensorrt_llm/models/chatglm/model.py) *)
(* and the bloom example entry point (examples/bloom/run.py).              *)
(*                                                                         *)
(* Tensors are abstracted to (value, shape): the value is an element of    *)
(* Z_P and every sub-module (norms, attention, MLP, embeddings) is a fixed *)
(* affine map on Z_P, distinct per kind and per layer, so that the wiring  *)
(* of the graph (which tensor feeds which module) is observable.           *)
(***************************************************************************)
EXTENDS Integers, Sequences, FiniteSets, TLC

\* ---------------------------------------------------------------- bounds
MaxLayers == 2
MaxListLen == 2
MaxPosCols == 3
MaxWorld == 2
MaxNewTokens == 3
MaxPrompt == 2

\* ------------------------------------------------------- program constants
P == 251
ViewLastDim == 4096
EOS_TOKEN == 2
PAD_TOKEN == 3

\* ------------------------------------------------------------- model names
Legacy == {"chatglm_6b"}
ChatGLM23 == {"chatglm2_6b", "chatglm2_6b_32k", "chatglm3_6b",
              "chatglm3_6b_base", "chatglm3_6b_32k"}
LongContext == {"chatglm2_6b_32k", "chatglm3_6b_32k"}
GLM == {"glm_10b"}
Supported == Legacy \cup ChatGLM23 \cup GLM
ModelNames == Supported \cup {"unknown_model"}
Entries == {"ChatGLMHeadModel", "ChatGLMModel", "ChatGLMDecoderLayer"}
HiddenSizes == {2048, 4096}
NormKinds == {"LayerNorm", "RmsNorm"}

Min(a, b) == IF a < b THEN a ELSE b

RECURSIVE ISqrtFrom(_, _)
ISqrtFrom(n, r) == IF (r + 1) * (r + 1) > n THEN r ELSE ISqrtFrom(n, r + 1)
\* integer square root
ISqrt(n) == ISqrtFrom(n, 0)

\* (2 * num_layers) ** 0.5, kept in tenths (one decimal, fixed point)
Alpha(num_layers) == ISqrt(200 * num_layers)

\* ---------------------------------------------------- sub-module semantics
LayerNormF(x) == (3 * x + 1) % P
RmsNormF(x) == (3 * x + 2) % P
NormF(kind, x) == IF kind = "RmsNorm" THEN RmsNormF(x) ELSE LayerNormF(x)
AttentionF(i, x) == (5 * x + i + 2) % P
MlpF(i, x) == (7 * x + 2 * i + 3) % P
EmbeddingF(x) == (2 * x + 1) % P
PositionEmbeddingF(x) == (11 * x + 4) % P
BlockEmbeddingF(x) == (13 * x + 5) % P
Add(a, b) == (a + b) % P
Scale(a, k) == (a * k) % P

VARIABLES
    entry,      \* class being constructed
    args,       \* the args namespace
    pc,         \* position in construction / forward
    error,      \* exception that ended the construction or the call
    built,      \* sub-modules built so far, in construction order
    layers,     \* attributes of the constructed decoder layers
    modelNorm,  \* ChatGLMModel.norm
    fwd,        \* locals and inputs of the running ChatGLMModel.forward
    trace,      \* per-layer record of the tensors seen by this forward
    cache,      \* per-layer number of timesteps held by the KV cache
    run,        \* state of the example entry point
    gen,        \* state of the generation session
    kvCache     \* one (request, layer) entry of the KV cache manager

vars == <<entry, args, pc, error, built, layers, modelNorm, fwd, trace,
          cache, run, gen, kvCache>>
modelVars == <<entry, args, pc, error, built, layers, modelNorm, fwd, trace,
               cache>>
runVars == <<run, gen, kvCache>>

\* ------------------------------------------------------------ construction
NoFwd == [active |-> FALSE]
NoRun == [rpc |-> "idle"]
NoGen == [phase |-> "idle"]
NoKv == [state |-> "idle"]

\* the model-name chain with the glm_10b arm setting no residual policy
LayerVariantGlmNoPolicy(a) ==
    IF a.model_name \in Legacy THEN
        [has_norm |-> TRUE, norm |-> "LayerNorm",
         has_alpha |-> TRUE, alpha |-> Alpha(a.num_layers),
         has_policy |-> FALSE, policy |-> FALSE,
         mask |-> "bidirectional", position |-> "chatglm", scaling |-> FALSE]
    ELSE IF a.model_name \in ChatGLM23 THEN
        [has_norm |-> TRUE,
         norm |-> IF a.rmsnorm THEN "RmsNorm" ELSE "LayerNorm",
         has_alpha |-> FALSE, alpha |-> 0,
         has_policy |-> TRUE,
         policy |-> a.apply_residual_connection_post_layernorm,
         mask |-> "causal", position |-> "rope_gptj",
         scaling |-> a.model_name \in LongContext]
    ELSE IF a.model_name \in GLM THEN
        [has_norm |-> TRUE, norm |-> "LayerNorm",
         has_alpha |-> FALSE, alpha |-> 0,
         has_policy |-> FALSE, policy |-> FALSE,
         mask |-> "bidirectionalglm", position |-> "learned_absolute",
         scaling |-> FALSE]
    ELSE
        [has_norm |-> FALSE, norm |-> "unset",
         has_alpha |-> FALSE, alpha |-> 0,
         has_policy |-> FALSE, policy |-> FALSE,
         mask |-> "unset", position |-> "unset", scaling |-> FALSE]

\* ChatGLMDecoderLayer.__init__, the model-name chain
LayerVariant(a) ==
    IF a.model_name \in Legacy THEN
        [has_norm |-> TRUE, norm |-> "LayerNorm",
         has_alpha |-> TRUE, alpha |-> Alpha(a.num_layers),
         has_policy |-> FALSE, policy |-> FALSE,
         mask |-> "bidirectional", position |-> "chatglm", scaling |-> FALSE]
    ELSE IF a.model_name \in ChatGLM23 THEN
        [has_norm |-> TRUE,
         norm |-> IF a.rmsnorm THEN "RmsNorm" ELSE "LayerNorm",
         has_alpha |-> FALSE, alpha |-> 0,
         has_policy |-> TRUE,
         policy |-> a.apply_residual_connection_post_layernorm,
         mask |-> "causal", position |-> "rope_gptj",
         scaling |-> a.model_name \in LongContext]
    ELSE IF a.model_name \in GLM THEN
        [has_norm |-> TRUE, norm |-> "LayerNorm",
         has_alpha |-> FALSE, alpha |-> 0,
         has_policy |-> TRUE,
         policy |-> a.apply_residual_connection_post_layernorm,
         mask |-> "bidirectionalglm", position |-> "learned_absolute",
         scaling |-> FALSE]
    ELSE
        [has_norm |-> FALSE, norm |-> "unset",
         has_alpha |-> FALSE, alpha |-> 0,
         has_policy |-> FALSE, policy |-> FALSE,
         mask |-> "unset", position |-> "unset", scaling |-> FALSE]

\* ChatGLMModel.__init__, the choice of self.norm
ModelNormKind(model_name) ==
    IF model_name \in Legacy \cup GLM THEN "LayerNorm"
    ELSE IF model_name \in ChatGLM23 THEN "RmsNorm"
    ELSE "unset"

\* ChatGLMHeadModel.__init__, the defaults of the keyword path
HeadDefaults(a) ==
    IF a.model_name \in ChatGLM23 THEN
        [a EXCEPT !.use_cache = TRUE,
                  !.apply_residual_connection_post_layernorm = FALSE,
                  !.rmsnorm = TRUE]
    ELSE [a EXCEPT !.use_cache = TRUE]

\* the sub-modules one ChatGLMDecoderLayer builds, in order
LayerComponents == <<"pre_norm", "attention", "mlp", "post_norm">>

\* the embeddings ChatGLMModel.__init__ builds, in order
ModelEmbeddings(model_name) ==
    IF model_name \in GLM
    THEN <<"embedding", "position_embeddings", "block_embeddings">>
    ELSE <<"embedding">>

ArgsSet ==
    [model_name : ModelNames, use_cache : BOOLEAN, num_layers : 1..MaxLayers,
     hidden_size : HiddenSizes, rmsnorm : BOOLEAN,
     apply_residual_connection_post_layernorm : BOOLEAN]

Init ==
    /\ entry \in Entries
    /\ args \in ArgsSet
    /\ pc = "start"
    /\ error = "none"
    /\ built = << >>
    /\ layers = << >>
    /\ modelNorm = "unset"
    /\ fwd = NoFwd
    /\ trace = << >>
    /\ cache = << >>
    /\ run = NoRun
    /\ gen = NoGen
    /\ kvCache = NoKv

\* ChatGLMHeadModel.__init__: keyword path (defaults) or args path
HeadInit ==
    /\ pc = "start"
    /\ entry = "ChatGLMHeadModel"
    /\ \E keywords \in BOOLEAN :
          args' = IF keywords THEN HeadDefaults(args) ELSE args
    /\ pc' = "model_init"
    /\ UNCHANGED <<entry, error, built, layers, modelNorm, fwd, trace, cache>>
    /\ UNCHANGED runVars

\* ChatGLMModel.__init__ up to the embeddings
ModelInit ==
    /\ \/ pc = "start" /\ entry = "ChatGLMModel"
       \/ pc = "model_init"
    /\ modelNorm' = ModelNormKind(args.model_name)
    /\ built' = built \o ModelEmbeddings(args.model_name)
    /\ pc' = "model_layers"
    /\ UNCHANGED <<entry, args, error, layers, fwd, trace, cache>>
    /\ UNCHANGED runVars

\* ChatGLMDecoderLayer.__init__ for layer_id = Len(layers)
LayerInit ==
    /\ \/ pc = "start" /\ entry = "ChatGLMDecoderLayer"
       \/ pc = "model_layers" /\ Len(layers) < args.num_layers
    /\ LET v == LayerVariant(args) IN
        IF ~v.has_norm
        THEN /\ error' = "AttributeError"
             /\ pc' = "failed"
             /\ UNCHANGED <<built, layers>>
        ELSE /\ built' = built \o LayerComponents
             /\ layers' = Append(layers,
                    [layer_id |-> Len(layers),
                     model_name |-> args.model_name,
                     use_cache |-> args.use_cache,
                     variant |-> v])
             /\ pc' = IF entry = "ChatGLMDecoderLayer"
                      THEN "constructed" ELSE "model_layers"
             /\ error' = error
    /\ UNCHANGED <<entry, args, modelNorm, fwd, trace, cache>>
    /\ UNCHANGED runVars

\* ChatGLMModel.__init__, self.final_norm, then ChatGLMHeadModel.init
FinalNormInit ==
    /\ pc = "model_layers"
    /\ Len(layers) = args.num_layers
    /\ IF modelNorm = "unset"
       THEN /\ error' = "AttributeError"
            /\ pc' = "failed"
            /\ built' = built
       ELSE /\ built' = IF entry = "ChatGLMHeadModel"
                        THEN built \o <<"final_norm", "lm_head">>
                        ELSE Append(built, "final_norm")
            /\ pc' = "constructed"
            /\ error' = error
    /\ UNCHANGED <<entry, args, layers, modelNorm, fwd, trace, cache>>
    /\ UNCHANGED runVars

\* ----------------------------------------------------------------- forward
NoneLen == -1
ListLens == {NoneLen} \cup 0..MaxListLen
Shapes == {<<1, 1>>, <<2, 3>>}
InputIds == {1, 2}

\* KeyValueCacheParams.fill_none_tensor_list: a list that is None becomes
\* a list of list_size None entries, any other list is left as it is
FillNone(len, list_size) == IF len = NoneLen THEN list_size ELSE len

\* number of iterations of the zip over the layers and the three lists
ZipLen(n, a, b, c) == Min(Min(n, a), Min(b, c))

\* Attention with use_cache: the layer's attention appends the current
\* timestep's key/value to the cache entry of layer i
AttentionAppend(c, i, use_cache) ==
    IF use_cache THEN [c EXCEPT ![i] = @ + 1] ELSE c

\* which residual chain ChatGLMDecoderLayer.forward takes
ForwardBranch(model_name) ==
    IF model_name \in Legacy THEN "alpha"
    ELSE IF model_name \in ChatGLM23 \cup GLM THEN "additive"
    ELSE "none"

\* the layer forward with the second combine always based on norm_input
LayerForwardSecondBaseFixed(L, h) ==
    LET v == L.variant
        norm_output == NormF(v.norm, h)
        attention_output == AttentionF(L.layer_id, norm_output)
        branch == ForwardBranch(L.model_name)
        norm_input ==
            IF branch = "alpha"
            THEN Add(Scale(norm_output, v.alpha), attention_output)
            ELSE Add(IF v.policy THEN norm_output ELSE h, attention_output)
        norm_output2 == NormF(v.norm, norm_input)
        mlp_output == MlpF(L.layer_id, norm_output2)
        output ==
            IF branch = "alpha"
            THEN Add(Scale(norm_output2, v.alpha), mlp_output)
            ELSE Add(norm_input, mlp_output)
    IN [layer_id |-> L.layer_id, branch |-> branch,
        hidden_states |-> h, norm_output |-> norm_output,
        attention_output |-> attention_output, norm_input |-> norm_input,
        norm_output2 |-> norm_output2, mlp_output |-> mlp_output,
        output |-> output]

\* ChatGLMDecoderLayer.forward on hidden_states h
LayerForward(L, h) ==
    LET v == L.variant
        norm_output == NormF(v.norm, h)
        attention_output == AttentionF(L.layer_id, norm_output)
        branch == ForwardBranch(L.model_name)
        norm_input ==
            IF branch = "alpha"
            THEN Add(Scale(norm_output, v.alpha), attention_output)
            ELSE Add(IF v.policy THEN norm_output ELSE h, attention_output)
        norm_output2 == NormF(v.norm, norm_input)
        mlp_output == MlpF(L.layer_id, norm_output2)
        output ==
            IF branch = "alpha"
            THEN Add(Scale(norm_output2, v.alpha), mlp_output)
            ELSE Add(IF v.policy THEN norm_output2 ELSE norm_input,
                     mlp_output)
    IN [layer_id |-> L.layer_id, branch |-> branch,
        hidden_states |-> h, norm_output |-> norm_output,
        attention_output |-> attention_output, norm_input |-> norm_input,
        norm_output2 |-> norm_output2, mlp_output |-> mlp_output,
        output |-> output]

\* ChatGLMModel.forward, from the embedding to the start of the layer loop
ForwardBegin ==
    /\ pc = "constructed"
    /\ entry # "ChatGLMDecoderLayer"
    /\ \E shp \in Shapes, x \in InputIds, cols \in 1..MaxPosCols,
          pkv \in ListLens, ptr \in ListLens, mkv \in ListLens,
          past \in 0..1 :
        LET token == EmbeddingF(x)
            glm == args.model_name \in GLM
            position_embedding ==
                Add(PositionEmbeddingF(x), BlockEmbeddingF(x + 1))
            view_shape == <<shp[1], shp[2], ViewLastDim>>
            index_error == glm /\ cols < 2
            view_error == glm /\ ~index_error
                              /\ args.hidden_size # ViewLastDim
            embedded == IF glm THEN Add(token, position_embedding)
                        ELSE token
            n == args.num_layers
        IN
        /\ fwd' = [active |-> TRUE, input_ids |-> x, shape |-> shp,
                   position_cols |-> cols,
                   split_done |-> glm /\ ~index_error,
                   position_shape |-> IF glm /\ ~index_error
                                      THEN view_shape ELSE << >>,
                   lens |-> <<pkv, ptr, mkv>>,
                   iters |-> ZipLen(n, FillNone(pkv, n), FillNone(ptr, n),
                                    FillNone(mkv, n)),
                   embedded |-> embedded,
                   hidden_states |-> embedded,
                   hidden_shape |-> <<shp[1], shp[2], args.hidden_size>>,
                   presents |-> << >>, marked |-> << >>,
                   final_in |-> 0, past |-> past]
        /\ cache' = [i \in 1..n |-> past]
        /\ error' = IF index_error THEN "IndexError"
                    ELSE IF view_error THEN "ReshapeError" ELSE "none"
        /\ pc' = IF index_error \/ view_error THEN "failed"
                 ELSE "fwd_layers"
    /\ trace' = << >>
    /\ UNCHANGED <<entry, args, built, layers, modelNorm>>
    /\ UNCHANGED runVars

\* one iteration of the layer loop of ChatGLMModel.forward; the attention
\* of the layer either fails or appends this step to the layer's cache
ForwardLayer ==
    /\ pc = "fwd_layers"
    /\ Len(trace) < fwd.iters
    /\ \E ok \in BOOLEAN :
        LET i == Len(trace) + 1
            r == LayerForward(layers[i], fwd.hidden_states)
        IN
        IF ok
        THEN /\ trace' = Append(trace, r)
             /\ cache' = AttentionAppend(cache, i, args.use_cache)
             /\ fwd' = IF args.use_cache
                       THEN [fwd EXCEPT !.hidden_states = r.output,
                                        !.presents = Append(@, i)]
                       ELSE fwd
             /\ UNCHANGED <<pc, error>>
        ELSE /\ pc' = "failed"
             /\ error' = "LayerFailure"
             /\ UNCHANGED <<trace, cache, fwd>>
    /\ UNCHANGED <<entry, args, built, layers, modelNorm>>
    /\ UNCHANGED runVars

\* ChatGLMModel.forward, the final norm and the return
ForwardFinal ==
    /\ pc = "fwd_layers"
    /\ Len(trace) = fwd.iters
    /\ fwd' = [fwd EXCEPT !.final_in = fwd.hidden_states,
                          !.hidden_states = NormF(modelNorm,
                                                  fwd.hidden_states)]
    /\ pc' = IF entry = "ChatGLMHeadModel" THEN "head_forward"
             ELSE "returned"
    /\ UNCHANGED <<entry, args, error, built, layers, modelNorm, trace,
                   cache>>
    /\ UNCHANGED runVars

\* ChatGLMHeadModel.forward after super().forward: logits and outputs
HeadForward ==
    /\ pc = "head_forward"
    /\ \E paged_kv_cache \in BOOLEAN :
        fwd' = [fwd EXCEPT !.marked =
                    IF args.use_cache /\ ~paged_kv_cache
                    THEN fwd.presents ELSE << >>]
    /\ pc' = "returned"
    /\ UNCHANGED <<entry, args, error, built, layers, modelNorm, trace,
                   cache>>
    /\ UNCHANGED runVars

Next ==
    \/ HeadInit
    \/ ModelInit
    \/ LayerInit
    \/ FinalNormInit
    \/ ForwardBegin
    \/ ForwardLayer
    \/ ForwardFinal
    \/ HeadForward

Spec == Init /\ [][Next]_vars

\* ------------------------------------------------- examples/bloom/run.py
NoKvCacheLen == 0
Vocab == {EOS_TOKEN, PAD_TOKEN, 5}
IdleArgs ==
    [model_name |-> "chatglm_6b", use_cache |-> TRUE, num_layers |-> 1,
     hidden_size |-> 4096, rmsnorm |-> FALSE,
     apply_residual_connection_post_layernorm |-> FALSE]

\* the assertion on the engine's tensor_parallel with the check left out
WorldSizeUnchecked(world_size, mpi_world_size) == TRUE

\* assert world_size == tensorrt_llm.mpi_world_size()
WorldSizeMatches(world_size, mpi_world_size) == world_size = mpi_world_size

\* a sampling config that ends on the pad id
SamplingConfigEndOnPad == [end_id |-> PAD_TOKEN, pad_id |-> EOS_TOKEN]

\* SamplingConfig(end_id=EOS_TOKEN, pad_id=PAD_TOKEN)
SamplingConfig == [end_id |-> EOS_TOKEN, pad_id |-> PAD_TOKEN]

\* capacity of the KV cache: --max_kv_cache_len, or the max sequence length
CacheCapacity(max_kv_cache_len, context, max_new_tokens) ==
    IF max_kv_cache_len = NoKvCacheLen THEN context + max_new_tokens
    ELSE max_kv_cache_len

\* valid_length of a cache that received n appends
ValidLength(n, capacity) == Min(n, capacity)

RunInit ==
    /\ entry = "none"
    /\ args = IdleArgs
    /\ pc = "idle"
    /\ error = "none"
    /\ built = << >>
    /\ layers = << >>
    /\ modelNorm = "unset"
    /\ fwd = NoFwd
    /\ trace = << >>
    /\ cache = << >>
    /\ \E tp \in 1..MaxWorld, mpi \in 1..MaxWorld,
          out \in 1..MaxNewTokens, prompt \in 1..MaxPrompt,
          kv \in {NoKvCacheLen} \cup 1..(MaxPrompt + 1) :
        run = [rpc |-> "start", world_size |-> tp, mpi_world_size |-> mpi,
               max_output_len |-> out, max_kv_cache_len |-> kv,
               input_len |-> prompt, error |-> "none",
               engine_read |-> FALSE, session |-> "none",
               output_ids |-> << >>, lines |-> 0]
    /\ gen = NoGen
    /\ kvCache = NoKv

\* config.json is read and the world size asserted
ReadConfig ==
    /\ run.rpc = "start"
    /\ run' = IF WorldSizeMatches(run.world_size, run.mpi_world_size)
              THEN [run EXCEPT !.rpc = "load"]
              ELSE [run EXCEPT !.rpc = "fatal", !.error = "AssertionError"]
    /\ UNCHANGED <<gen, kvCache>>
    /\ UNCHANGED modelVars

\* the serialized engine is read
LoadEngine ==
    /\ run.rpc = "load"
    /\ run' = [run EXCEPT !.rpc = "session", !.engine_read = TRUE]
    /\ UNCHANGED <<gen, kvCache>>
    /\ UNCHANGED modelVars

\* GenerationSession(...) and decoder.setup(...)
SetupSession ==
    /\ run.rpc = "session"
    /\ run' = [run EXCEPT !.rpc = "decode", !.session = "setup"]
    /\ gen' = [phase |-> "Prefill",
               max_new_tokens |-> run.max_output_len,
               capacity |-> CacheCapacity(run.max_kv_cache_len,
                                          run.input_len,
                                          run.max_output_len),
               end_id |-> SamplingConfig.end_id,
               tokens |-> << >>, appended |-> 0]
    /\ UNCHANGED kvCache
    /\ UNCHANGED modelVars

\* GenerationLoop, Prefill: the prompt runs through the stack once
Prefill ==
    /\ run.rpc = "decode"
    /\ gen.phase = "Prefill"
    /\ gen' = [gen EXCEPT !.phase = "Decoding",
                          !.appended = run.input_len]
    /\ UNCHANGED <<run, kvCache>>
    /\ UNCHANGED modelVars

\* GenerationLoop, Decoding: sample, feed the token, append it, then stop
\* on the end id or on max_new_tokens
DecodeStep ==
    /\ run.rpc = "decode"
    /\ gen.phase = "Decoding"
    /\ \E token \in Vocab :
        LET tokens == Append(gen.tokens, token) IN
        gen' = [gen EXCEPT
                  !.tokens = tokens,
                  !.appended = @ + 1,
                  !.phase = IF token = gen.end_id
                               \/ Len(tokens) >= gen.max_new_tokens
                            THEN "Finished" ELSE "Decoding"]
    /\ UNCHANGED <<run, kvCache>>
    /\ UNCHANGED modelVars

\* output_ids is sliced after the prompt and the three lines are printed
PrintOutput ==
    /\ run.rpc = "decode"
    /\ gen.phase = "Finished"
    /\ run' = [run EXCEPT !.rpc = "done", !.output_ids = gen.tokens,
                          !.lines = 3]
    /\ UNCHANGED <<gen, kvCache>>
    /\ UNCHANGED modelVars

RunNext ==
    \/ ReadConfig
    \/ LoadEngine
    \/ SetupSession
    \/ Prefill
    \/ DecodeStep
    \/ PrintOutput

RunSpec == RunInit /\ [][RunNext]_vars

\* the script runs to its end: no step of it waits on anything
FairRunSpec == RunSpec /\ WF_vars(RunNext)

\* ------------------------------------------- bounded (cyclic) KV cache
MaxCapacity == 3
MaxAppends == 5
KvValues == {1, 2}
EmptySlot == <<-1, 0>>

\* read in raw storage order
KvReadRawOrder(k) == SubSeq(k.ring, 1, Min(k.total, k.capacity))

\* read: the valid entries in chronological order, rebuilt from the write
\* cursor (the cursor is the oldest slot once the ring is full)
KvRead(k) ==
    IF k.total <= k.capacity
    THEN SubSeq(k.ring, 1, k.total)
    ELSE SubSeq(k.ring, k.cursor, k.capacity)
            \o SubSeq(k.ring, 1, k.cursor - 1)

CacheInit ==
    /\ entry = "none"
    /\ args = IdleArgs
    /\ pc = "idle"
    /\ error = "none"
    /\ built = << >>
    /\ layers = << >>
    /\ modelNorm = "unset"
    /\ fwd = NoFwd
    /\ trace = << >>
    /\ cache = << >>
    /\ run = NoRun
    /\ gen = NoGen
    /\ kvCache = [state |-> "Unallocated"]

\* allocate(request, capacity, bounded): the capacity is the one the entry
\* point hands to setup, --max_kv_cache_len or the max sequence length
KvAllocate ==
    /\ kvCache.state = "Unallocated"
    /\ \E len \in {NoKvCacheLen} \cup 1..MaxCapacity,
          context \in 1..MaxPrompt, new \in 1..MaxNewTokens :
        LET capacity == CacheCapacity(len, context, new) IN
        kvCache' = [state |-> "Allocated", capacity |-> capacity,
                    ring |-> [i \in 1..capacity |-> EmptySlot],
                    cursor |-> 1, total |-> 0, log |-> << >>,
                    has_read |-> FALSE, keys |-> << >>,
                    valid_length |-> 0]
    /\ UNCHANGED <<run, gen>>
    /\ UNCHANGED modelVars

\* append(request, layer, key, value): writes timestep number total at the
\* cursor, overwriting the oldest slot once the ring is full
KvAppend ==
    /\ kvCache.state = "Allocated"
    /\ kvCache.total < MaxAppends
    /\ \E v \in KvValues :
        LET e == <<kvCache.total, v>> IN
        kvCache' = [kvCache EXCEPT
                      !.ring[kvCache.cursor] = e,
                      !.cursor = (@ % kvCache.capacity) + 1,
                      !.total = @ + 1,
                      !.log = Append(@, e),
                      !.has_read = FALSE,
                      !.keys = << >>,
                      !.valid_length = 0]
    /\ UNCHANGED <<run, gen>>
    /\ UNCHANGED modelVars

\* read(request, layer) -> (keys, valid_length)
KvReadEntry ==
    /\ kvCache.state = "Allocated"
    /\ ~kvCache.has_read
    /\ kvCache' = [kvCache EXCEPT
                     !.has_read = TRUE,
                     !.keys = KvRead(kvCache),
                     !.valid_length = ValidLength(kvCache.total,
                                                  kvCache.capacity)]
    /\ UNCHANGED <<run, gen>>
    /\ UNCHANGED modelVars

\* release(request): terminal
KvRelease ==
    /\ kvCache.state = "Allocated"
    /\ kvCache' = [state |-> "Released"]
    /\ UNCHANGED <<run, gen>>
    /\ UNCHANGED modelVars

CacheNext ==
    \/ KvAllocate
    \/ KvAppend
    \/ KvReadEntry
    \/ KvRelease

CacheSpec == CacheInit /\ [][CacheNext]_vars

\* ================================================================= claims

\* the forward in progress was entered (its locals exist)
InForward == pc \in {"fwd_layers", "head_forward", "returned"}

\* C1: layer 0 receives the embedded input, every later layer receives the
\* output of the layer before it, and the final norm is applied to the
\* output of the last layer, with use_cache set or not.
C1_HiddenStatesThreaded ==
    /\ \A i \in 1..Len(trace) :
          trace[i].hidden_states =
              IF i = 1 THEN fwd.embedded ELSE trace[i - 1].output
    /\ (pc \in {"head_forward", "returned"} /\ Len(trace) > 0)
          => fwd.final_in = trace[Len(trace)].output

\* the error kinds the design calls ConfigurationError: an explicit check of
\* the configuration that stops the program
ConfigurationErrors == {"AssertionError"}

\* C2: constructing any of the three classes with a model_name outside the
\* supported set fails with a ConfigurationError before any norm, attention,
\* MLP or embedding is built.
C2_UnknownModelRejected ==
    args.model_name \notin Supported =>
        /\ built = << >>
        /\ pc \notin {"start", "model_init"} =>
              (pc = "failed" /\ error \in ConfigurationErrors)

\* C3: every constructed layer of a supported model has exactly one residual
\* policy (alpha-scaled or additive with selectable base), the one its
\* forward uses, and exactly one normalization kind.
C3_OnePolicyOneNorm ==
    /\ \A i \in 1..Len(layers) :
          LET L == layers[i]
              b == ForwardBranch(L.model_name)
          IN /\ L.variant.has_alpha # L.variant.has_policy
             /\ b \in {"alpha", "additive"}
             /\ (b = "alpha") = L.variant.has_alpha
             /\ (b = "additive") = L.variant.has_policy
             /\ L.variant.has_norm
             /\ L.variant.norm \in NormKinds
    /\ \A i \in 1..Len(trace) :
          trace[i].branch =
              IF layers[i].variant.has_alpha THEN "alpha" ELSE "additive"

C3_Witness ==
    /\ pc = "returned"
    /\ Len(trace) = args.num_layers
    /\ args.model_name \in GLM
    /\ trace[1].branch = "additive"

\* C4: when a layer fails in the middle of the forward, the cache of every
\* layer equals its state before the call.
C4_CacheAtomicOnFailure ==
    (pc = "failed" /\ error = "LayerFailure") =>
        \A i \in DOMAIN cache : cache[i] = fwd.past

\* C5: a forward that returns has run each of the num_layers layers once,
\* in index order, and with use_cache returns num_layers presents, entry i
\* from layer i, whatever the lengths of the per-layer lists.
C5_AllLayersRun ==
    pc = "returned" =>
        /\ Len(trace) = args.num_layers
        /\ \A i \in 1..Len(trace) : trace[i].layer_id = i - 1
        /\ args.use_cache =>
              fwd.presents = [i \in 1..args.num_layers |-> i]

\* C6: residual combines of one layer. Legacy family: A = pre-norm output *
\* alpha + attention output, B = post-norm output * alpha + MLP output,
\* alpha = sqrt(2 * num_layers). Other families: A = (pre-norm output if the
\* post-layernorm residual policy is set, else the layer input) + attention
\* output, B = (post-norm output if set, else A) + MLP output. The post-norm
\* is applied to A and the MLP to the post-norm output.
C6_ResidualCombine ==
    \A i \in 1..Len(trace) :
        LET t == trace[i]
            kind == layers[i].variant.norm
            alpha == layers[i].variant.alpha
            set == args.apply_residual_connection_post_layernorm
        IN /\ t.norm_output = NormF(kind, t.hidden_states)
           /\ t.norm_output2 = NormF(kind, t.norm_input)
           /\ t.mlp_output = MlpF(i - 1, t.norm_output2)
           /\ IF args.model_name \in Legacy
              THEN /\ alpha * alpha <= 200 * args.num_layers
                   /\ (alpha + 1) * (alpha + 1) > 200 * args.num_layers
                   /\ t.norm_input =
                        (t.norm_output * alpha + t.attention_output) % P
                   /\ t.output =
                        (t.norm_output2 * alpha + t.mlp_output) % P
              ELSE /\ t.norm_input =
                        ((IF set THEN t.norm_output ELSE t.hidden_states)
                         + t.attention_output) % P
                   /\ t.output =
                        ((IF set THEN t.norm_output2 ELSE t.norm_input)
                         + t.mlp_output) % P

C6_Witness ==
    /\ Len(trace) = 2
    /\ args.model_name \in ChatGLM23
    /\ args.apply_residual_connection_post_layernorm
    /\ trace[2].norm_output2 # trace[2].norm_input
    /\ trace[2].norm_output # trace[2].hidden_states

\* the variants with 2-D positional encoding (position and block ids)
PositionEncoding2D(model_name) == model_name \in {"chatglm_6b", "glm_10b"}

\* C7: for every variant with 2-D positional encoding the forward splits
\* position_ids into two columns, embeds and sums them and adds the sum to
\* the token embedding; without exactly two columns the call fails with
\* ShapeError before any layer runs.
C7_TwoColumnPositions ==
    (fwd.active /\ PositionEncoding2D(args.model_name)) =>
        IF fwd.position_cols = 2
        THEN pc # "failed" =>
               /\ fwd.split_done
               /\ fwd.embedded =
                    (EmbeddingF(fwd.input_ids)
                     + PositionEmbeddingF(fwd.input_ids)
                     + BlockEmbeddingF(fwd.input_ids + 1)) % P
        ELSE /\ pc = "failed"
             /\ error = "ShapeError"
             /\ trace = << >>

\* C8: the returned hidden_states have shape [batch, seq, hidden_size] and
\* the summed position and block embedding added to the token embedding has
\* hidden_size as its last dimension.
C8_HiddenSizeShapes ==
    fwd.active =>
        /\ fwd.position_shape # << >> =>
              fwd.position_shape[3] = args.hidden_size
        /\ pc = "returned" =>
              fwd.hidden_shape =
                  <<fwd.shape[1], fwd.shape[2], args.hidden_size>>

\* a run of the entry point is in progress or over
Running == run.rpc # "idle"

\* C9: when the engine's tensor-parallel degree differs from the runtime
\* worker count the run ends with a fatal ConfigurationError before the
\* engine is read, a session is created or set up, a decode step is taken
\* or a line is printed; when they match the run proceeds to decode.
C9_WorldSizeChecked ==
    /\ [](Running /\ run.rpc # "start"
            /\ run.world_size # run.mpi_world_size
          => /\ run.rpc = "fatal"
             /\ run.error \in ConfigurationErrors
             /\ ~run.engine_read
             /\ run.session = "none"
             /\ gen.phase = "idle"
             /\ run.lines = 0)
    /\ [](Running /\ run.world_size = run.mpi_world_size
          => run.rpc # "fatal" /\ run.error = "none")
    /\ (Running /\ run.world_size = run.mpi_world_size)
          ~> (gen.phase \in {"Decoding", "Finished"})

C9_Witness ==
    /\ run.rpc = "fatal"
    /\ run.world_size # run.mpi_world_size
    /\ run.error = "AssertionError"

\* number of positions of a token sequence that hold token t
Count(seq, t) == Cardinality({i \in 1..Len(seq) : seq[i] = t})

\* C10 as stated: the run stops after at most max_new_tokens tokens, the
\* generated sequence contains the end-of-sequence id exactly once, as its
\* final token, and the cache valid_length equals the emitted tokens when
\* the capacity is not exceeded.
C10_EosExactlyOnce ==
    run.rpc = "done" =>
        /\ Len(run.output_ids) <= run.max_output_len
        /\ Count(run.output_ids, EOS_TOKEN) = 1
        /\ run.output_ids[Len(run.output_ids)] = EOS_TOKEN
        /\ gen.appended <= gen.capacity =>
              ValidLength(gen.appended, gen.capacity)
                  = run.input_len + Len(run.output_ids)

\* C10 amended: the run stops after at most max_new_tokens tokens; the
\* end-of-sequence id occurs at most once and only as the final token, and
\* a run that stops before max_new_tokens ends with it; the cache
\* valid_length equals the emitted tokens when capacity is not exceeded.
C10_EosAtMostOnceLast ==
    run.rpc = "done" =>
        /\ Len(run.output_ids) >= 1
        /\ Len(run.output_ids) <= run.max_output_len
        /\ Count(run.output_ids, EOS_TOKEN) <= 1
        /\ \A i \in 1..Len(run.output_ids) :
              run.output_ids[i] = EOS_TOKEN => i = Len(run.output_ids)
        /\ Len(run.output_ids) < run.max_output_len =>
              run.output_ids[Len(run.output_ids)] = EOS_TOKEN
        /\ gen.appended <= gen.capacity =>
              ValidLength(gen.appended, gen.capacity)
                  = run.input_len + Len(run.output_ids)

C10_Witness ==
    /\ run.rpc = "done"
    /\ Len(run.output_ids) = 2
    /\ run.max_output_len = 3
    /\ run.output_ids[2] = EOS_TOKEN
    /\ gen.appended <= gen.capacity

\* the stack's final norm has been built
FinalNormBuilt == \E j \in 1..Len(built) : built[j] = "final_norm"

\* C12: for every supported model id and every value of the flags (rmsnorm
\* in particular) the final norm of the stack is of the same kind as the
\* pre-norm and post-norm of every decoder layer of the stack.
C12_FinalNormKindMatchesLayers ==
    (args.model_name \in Supported /\ FinalNormBuilt) =>
        \A i \in 1..Len(layers) : layers[i].variant.norm = modelNorm

\* C11: for a bounded cache of capacity C, a read after N > C appends returns
\* exactly C entries, those of timesteps N-C .. N-1 in chronological order
\* (not raw storage order); after N <= C appends it returns the N appended
\* entries in order; valid_length = min(N, C) in every reachable state.
C11_CyclicReadChronological ==
    kvCache.state = "Allocated" =>
        LET N == kvCache.total
            C == kvCache.capacity
            n == IF N > C THEN C ELSE N
        IN /\ ValidLength(N, C) = n
           /\ kvCache.has_read =>
                /\ kvCache.valid_length = n
                /\ Len(kvCache.keys) = n
                /\ \A j \in 1..n :
                      /\ kvCache.keys[j][1] = N - n + j - 1
                      /\ kvCache.keys[j] = kvCache.log[N - n + j]

C11_Witness ==
    /\ kvCache.state = "Allocated"
    /\ kvCache.has_read
    /\ kvCache.capacity >= 2
    /\ kvCache.total > kvCache.capacity
    /\ kvCache.cursor # 1
    /\ kvCache.keys # KvReadRawOrder(kvCache)

====
